---- MODULE Spec2Model ----
(***************************************************************************)
(* A model of open-cli's project-context assembly: FileManager (index,    *)
(* findFiles, readFile), ContextBuilder (buildContext and the helpers it  *)
(* calls, includeFiles, clearContext) and the ChatSession that drives     *)
(* them (line handler, processUserMessage, addToHistory), and of the      *)
(* RetryHandler (executeWithRetry).                                        *)
(*                                                                         *)
(* Texts the program matches on (messages, file names, paths, literals)   *)
(* are TLA+ strings, handled character by character.  A text the program  *)
(* builds is a sequence of pieces; a piece is either literal characters   *)
(* (field s) or the first hi characters of the content of length n that   *)
(* the file f held when it was read.                                       *)
(***************************************************************************)
EXTENDS Integers, Sequences, FiniteSets, TLC

VARIABLES
    projectPath,      \* FileManager.projectPath
    cwd,              \* process.cwd(), against which fs resolves relative paths
    projectFiles,     \* FileManager.projectFiles: sequence of [name, path, relativePath]
    disk,             \* the file system: absolute path -> [st, n]
    currentContext,   \* ContextBuilder.currentContext: insertion-ordered set of paths
    conversationHistory,  \* the history the caller hands to buildContext
    last,             \* the latest buildContext call since the file system last
                      \* changed: its arguments and what it returned; prior is
                      \* the context that includeFiles left before the call
    running,          \* the process of the chat session has not exited
    line,             \* the line the line handler of the session took last
    appended,         \* every entry handed to addToHistory so far, in order
    requests,         \* the requests handed to the transport so far, in order
    pending,          \* which of them the transport has not settled yet
    found,            \* the latest findFiles call of a caller of FileManager:
                      \* its query and the files it returned
    got,              \* the latest readFile call of a caller of FileManager
                      \* since the file system last changed: its argument
                      \* and what it returned
    scanned,          \* whether scanProject ran on the file system as it is,
                      \* the directories that scan listed, in order, and
                      \* the file system the latest scan ran on
    retry             \* a RetryHandler and its latest executeWithRetry call:
                      \* the fields of the handler, where the call stands,
                      \* what asyncFn was invoked for and what came of it

vars == <<projectPath, cwd, projectFiles, disk, currentContext,
          conversationHistory, last, running, line, appended, requests, pending,
          found, got, scanned, retry>>

\* what the calls of ContextBuilder leave alone
session == <<running, line, appended, requests, pending, found, got, scanned, retry>>

(***************************************************************************)
(* Characters and strings                                                  *)
(***************************************************************************)
Char(s, i) == SubSeq(s, i, i)

LowerOf ==
    [c \in {"A","B","C","D","E","F","G","H","I","J","K","L","M","N","O","P","Q",
            "R","S","T","U","V","W","X","Y","Z"} |->
        CASE c = "A" -> "a" [] c = "B" -> "b" [] c = "C" -> "c" [] c = "D" -> "d"
          [] c = "E" -> "e" [] c = "F" -> "f" [] c = "G" -> "g" [] c = "H" -> "h"
          [] c = "I" -> "i" [] c = "J" -> "j" [] c = "K" -> "k" [] c = "L" -> "l"
          [] c = "M" -> "m" [] c = "N" -> "n" [] c = "O" -> "o" [] c = "P" -> "p"
          [] c = "Q" -> "q" [] c = "R" -> "r" [] c = "S" -> "s" [] c = "T" -> "t"
          [] c = "U" -> "u" [] c = "V" -> "v" [] c = "W" -> "w" [] c = "X" -> "x"
          [] c = "Y" -> "y" [] c = "Z" -> "z"]

UpperChars == DOMAIN LowerOf

RECURSIVE lowerFrom(_, _)
lowerFrom(s, i) ==
    IF i > Len(s) THEN ""
    ELSE LET c == Char(s, i)
         IN  (IF c \in UpperChars THEN LowerOf[c] ELSE c) \o lowerFrom(s, i + 1)

\* String.prototype.toLowerCase (a string without capitals is its own lower case)
toLowerCase(s) ==
    IF \A i \in 1..Len(s) : Char(s, i) \notin UpperChars THEN s ELSE lowerFrom(s, 1)

\* String.prototype.includes
includes(hay, needle) ==
    \/ needle = ""
    \/ \E i \in 1..(Len(hay) - Len(needle) + 1) :
           SubSeq(hay, i, i + Len(needle) - 1) = needle

\* the regular-expression class \w
WordChars ==
    {"a","b","c","d","e","f","g","h","i","j","k","l","m","n","o","p","q","r","s",
     "t","u","v","w","x","y","z",
     "A","B","C","D","E","F","G","H","I","J","K","L","M","N","O","P","Q","R","S",
     "T","U","V","W","X","Y","Z",
     "0","1","2","3","4","5","6","7","8","9","_"}

\* the class [\w/]
PathChars == WordChars \cup {"/"}

\* first index >= i whose character is not in cls (Len(s) + 1 when there is none)
RECURSIVE RunEnd(_, _, _)
RunEnd(s, i, cls) ==
    IF i > Len(s) \/ Char(s, i) \notin cls THEN i ELSE RunEnd(s, i + 1, cls)

\* first index >= i holding character c (0 when there is none)
RECURSIVE IndexOf(_, _, _)
IndexOf(s, c, i) ==
    IF i > Len(s) THEN 0
    ELSE IF Char(s, i) = c THEN i ELSE IndexOf(s, c, i + 1)

\* last index in lo..hi holding character c (0 when there is none)
RECURSIVE LastIndexOf(_, _, _, _)
LastIndexOf(s, c, lo, hi) ==
    IF hi < lo THEN 0
    ELSE IF Char(s, hi) = c THEN hi ELSE LastIndexOf(s, c, lo, hi - 1)

\* a match of  cls+ \. \w+  starting at i: the index after it, 0 when none
MatchDotted(s, i, cls) ==
    LET a == RunEnd(s, i, cls)
        b == RunEnd(s, a + 1, WordChars)
    IN  IF a > i /\ a <= Len(s) /\ Char(s, a) = "." /\ b > a + 1 THEN b ELSE 0

\* The grave accent (U+0060) cannot be written inside a TLA+ string: in every
\* message of the model the character "#" stands for it, and for nothing else.
BackTick == "#"
DoubleQuote == "\""
SingleQuote == "'"

\* a match of  q [^q]+ \. \w+ q  starting at i: the index after it, 0 when none.
\* [^q]+ cannot cross a q, so the closing q is the first one after i, and the
\* dot is the last one before it.
MatchQuoted(s, i, q) ==
    IF Char(s, i) # q THEN 0
    ELSE LET j == IndexOf(s, q, i + 1)
             d == LastIndexOf(s, ".", i + 1, j - 1)
         IN  IF j # 0 /\ d > i + 1 /\ d + 1 < j
                     /\ RunEnd(s, d + 1, WordChars) = j
             THEN j + 1 ELSE 0

\* String.prototype.match with a /g pattern: the matched substrings, left to
\* right, not overlapping.  pat is 1..5, the position in filePatterns.
MatchAt(s, i, pat) ==
    CASE pat = 1 -> MatchDotted(s, i, WordChars)
      [] pat = 2 -> MatchDotted(s, i, PathChars)
      [] pat = 3 -> MatchQuoted(s, i, BackTick)
      [] pat = 4 -> MatchQuoted(s, i, DoubleQuote)
      [] pat = 5 -> MatchQuoted(s, i, SingleQuote)

RECURSIVE matchAll(_, _, _)
matchAll(s, i, pat) ==
    IF i > Len(s) THEN <<>>
    ELSE LET e == MatchAt(s, i, pat)
         IN  IF e = 0 THEN matchAll(s, i + 1, pat)
             ELSE <<SubSeq(s, i, e - 1)>> \o matchAll(s, e, pat)

\* match.replace(/[BackTick DoubleQuote SingleQuote]/g, '')
RECURSIVE cleanMatch(_)
cleanMatch(s) ==
    IF s = "" THEN ""
    ELSE LET c == Char(s, 1)
         IN  (IF c \in {BackTick, DoubleQuote, SingleQuote} THEN "" ELSE c)
                 \o cleanMatch(SubSeq(s, 2, Len(s)))

(***************************************************************************)
(* Sequences used as insertion-ordered sets                                *)
(***************************************************************************)
Range(q) == {q[i] : i \in DOMAIN q}

\* [...new Set(q)]: first occurrences, in order
RECURSIVE Dedup(_)
Dedup(q) ==
    IF q = <<>> THEN <<>>
    ELSE LET r == Dedup(SubSeq(q, 1, Len(q) - 1))
             x == q[Len(q)]
         IN  IF x \in Range(r) THEN r ELSE Append(r, x)

RECURSIVE Flatten(_)
Flatten(qq) == IF qq = <<>> THEN <<>> ELSE Head(qq) \o Flatten(Tail(qq))

\* Array.prototype.slice(0, k)
Take(q, k) == SubSeq(q, 1, IF Len(q) < k THEN Len(q) ELSE k)

\* Array.prototype.slice(-k)
LastK(q, k) == SubSeq(q, IF Len(q) > k THEN Len(q) - k + 1 ELSE 1, Len(q))

(***************************************************************************)
(* Texts the program builds                                                *)
(***************************************************************************)
Lit(str) == [s |-> str, f |-> "", n |-> 0, hi |-> 0]

\* the first k characters of the content of length len read from file
Slice(file, len, k) == [s |-> "", f |-> file, n |-> len, hi |-> k]

IsLit(p) == p.f = ""

\* string concatenation; adjacent literal pieces are one run of characters
TextCat(t, u) ==
    IF t = <<>> THEN u
    ELSE IF u = <<>> THEN t
    ELSE IF IsLit(t[Len(t)]) /\ IsLit(u[1])
         THEN SubSeq(t, 1, Len(t) - 1) \o <<Lit(t[Len(t)].s \o u[1].s)>> \o Tail(u)
         ELSE t \o u

Str(str) == IF str = "" THEN <<>> ELSE <<Lit(str)>>

\* String.prototype.length
RECURSIVE TextLen(_)
TextLen(t) ==
    IF t = <<>> THEN 0 ELSE Len(t[1].s) + t[1].hi + TextLen(Tail(t))

(***************************************************************************)
(* FileManager                                                             *)
(***************************************************************************)
\* path.isAbsolute
isAbsolute(p) == p # "" /\ Char(p, 1) = "/"

\* path.join(dir, rel)
pathJoin(dir, rel) == dir \o "/" \o rel

\* how fs resolves the path it is handed: a relative one against process.cwd()
fsResolve(p) == IF isAbsolute(p) THEN p ELSE pathJoin(cwd, p)

Missing == [st |-> "missing", n |-> 0]

diskAt(p) == IF p \in DOMAIN disk THEN disk[p] ELSE Missing

\* fs.existsSync
existsSync(p) == diskAt(fsResolve(p)).st # "missing"

\* the value null
Null == [null |-> TRUE, threw |-> FALSE, f |-> "", n |-> 0]

\* an exception on its way up the stack
Thrown == [null |-> TRUE, threw |-> TRUE, f |-> "", n |-> 0]

\* fs.readFileSync(fullPath, 'utf-8'): the content (which file it was read
\* from, its length), or an exception when the path is not a readable file
readFileSync(fullPath) ==
    IF diskAt(fsResolve(fullPath)).st = "file"
    THEN [null |-> FALSE, threw |-> FALSE, f |-> fsResolve(fullPath),
          n |-> diskAt(fsResolve(fullPath)).n]
    ELSE Thrown

\* readFile with the try block lost: what readFileSync throws goes up
readFileNoCatch(filePath) ==
    LET fullPath == IF isAbsolute(filePath) THEN filePath
                    ELSE pathJoin(projectPath, filePath)
    IN  IF ~existsSync(filePath) THEN Null
        ELSE readFileSync(fullPath)

\* FileManager.readFile: the content or null
readFile(filePath) ==
    LET fullPath == IF isAbsolute(filePath) THEN filePath
                    ELSE pathJoin(projectPath, filePath)
    IN  IF ~existsSync(filePath) THEN Null
        ELSE LET content == readFileSync(fullPath)
             IN  IF content.threw THEN Null           \* catch (error)
                 ELSE content

\* findFilesFrom with the test of the path no longer under else: a file is
\* pushed for its name and for its path
RECURSIVE findFilesFromBoth(_, _)
findFilesFromBoth(lowerQuery, i) ==
    IF i > Len(projectFiles) THEN <<>>
    ELSE LET file == projectFiles[i]
         IN  (IF includes(toLowerCase(file.name), lowerQuery) THEN <<file>> ELSE <<>>)
             \o (IF includes(toLowerCase(file.relativePath), lowerQuery)
                 THEN <<file>> ELSE <<>>)
             \o findFilesFromBoth(lowerQuery, i + 1)

\* FileManager.findFiles: the matching entries of projectFiles, in index order
RECURSIVE findFilesFrom(_, _)
findFilesFrom(lowerQuery, i) ==
    IF i > Len(projectFiles) THEN <<>>
    ELSE LET file == projectFiles[i]
             hit  == IF includes(toLowerCase(file.name), lowerQuery) THEN TRUE
                     ELSE includes(toLowerCase(file.relativePath), lowerQuery)
         IN  (IF hit THEN <<file>> ELSE <<>>) \o findFilesFrom(lowerQuery, i + 1)

findFiles(query) == findFilesFrom(toLowerCase(query), 1)

relativePaths(files) == [i \in DOMAIN files |-> files[i].relativePath]

\* the extensions, directory names and file names of the constructor
supportedExtensions ==
    { ".js", ".jsx", ".ts", ".tsx", ".py", ".pyx", ".java", ".kt", ".cpp", ".c",
      ".h", ".hpp", ".rs", ".go", ".php", ".rb", ".swift", ".dart", ".sh",
      ".bash", ".sql", ".json", ".yaml", ".yml", ".md", ".txt", ".html", ".css",
      ".scss" }

ignoredDirs ==
    { "node_modules", ".git", ".vscode", ".idea", "__pycache__", ".pytest_cache",
      ".mypy_cache", "build", "dist", "target", ".next", ".nuxt", "coverage",
      ".coverage", ".nyc_output", "vendor", "Pods", ".gradle" }

ignoredFiles ==
    { ".DS_Store", ".gitignore", ".npmignore", ".env", ".env.local",
      ".env.production", "package-lock.json", "yarn.lock", ".eslintrc",
      ".prettierrc" }

\* the depth above which _scanDirectory returns at once
MaxDepth == 5

\* the size above which a file is left out
MaxFileSize == 1024 * 1024

\* path.extname of a file name: from its last dot on, unless that dot leads
extname(filename) ==
    LET dot == LastIndexOf(filename, ".", 1, Len(filename))
    IN  IF dot <= 1 THEN "" ELSE SubSeq(filename, dot, Len(filename))

\* path.relative(from, to) for a path below from
pathRelative(from, to) == SubSeq(to, Len(from) + 2, Len(to))

\* where a path leads once the symbolic links on it are followed
RECURSIVE realpath(_)
realpath(p) ==
    LET cuts == {i \in 2..(Len(p) + 1) :
                     /\ i = Len(p) + 1 \/ Char(p, i) = "/"
                     /\ diskAt(SubSeq(p, 1, i - 1)).st = "link"}
    IN  IF cuts = {} THEN p
        ELSE LET i == CHOOSE c \in cuts : \A j \in cuts : c <= j
             IN  realpath(disk[SubSeq(p, 1, i - 1)].to \o SubSeq(p, i, Len(p)))

\* fs.statSync(fullPath): follows links; throws when nothing is there
statSync(fullPath) ==
    LET node == diskAt(realpath(fsResolve(fullPath)))
    IN  [threw |-> node.st = "missing",
         isDirectory |-> node.st \in {"dir", "locked"},
         isFile |-> node.st \in {"file", "eio"},
         size |-> node.n]

\* fs.readdirSync(dirPath): the names in the directory, or an exception
\* when the directory cannot be listed
readdirSync(dirPath) ==
    LET node == diskAt(realpath(fsResolve(dirPath)))
    IN  IF node.st = "dir" THEN [threw |-> FALSE, items |-> node.items]
        ELSE [threw |-> TRUE, items |-> <<>>]

\* FileManager._shouldIncludeFile
_shouldIncludeFile(filename, fullPath) ==
    /\ filename \notin ignoredFiles
    /\ extname(filename) \in supportedExtensions
    /\ ~(statSync(fullPath).size > MaxFileSize)

\* a directory the scan listed, among the entries it pushed
Listed(dirPath) == [listed |-> dirPath]

IsListed(x) == "listed" \in DOMAIN x

\* FileManager._scanDirectory: what the call pushes into projectFiles, in
\* order, with a mark for every directory it lists; scanItems is the for
\* loop from item i on, and an exception in it ends the loop in catch
RECURSIVE _scanDirectory(_, _), scanItems(_, _, _, _)

\* scanItems with one try block around the whole walk: a directory that
\* cannot be listed ends the loop of its parent too
scanItemsOneTry(dirPath, items, i, depth) ==
    IF i > Len(items) THEN <<>>
    ELSE LET item == items[i]
             fullPath == pathJoin(dirPath, item)
             stat == statSync(fullPath)
         IN  IF stat.threw THEN <<>>
             ELSE IF stat.isDirectory /\ item \notin ignoredDirs
                     /\ depth + 1 <= MaxDepth /\ readdirSync(fullPath).threw
             THEN <<Listed(fullPath)>>
             ELSE (IF stat.isDirectory
                   THEN IF item \notin ignoredDirs
                        THEN _scanDirectory(fullPath, depth + 1)
                        ELSE <<>>
                   ELSE IF stat.isFile /\ _shouldIncludeFile(item, fullPath)
                        THEN << [name |-> item, path |-> fullPath,
                                 relativePath |-> pathRelative(projectPath, fullPath)] >>
                        ELSE <<>>)
                  \o scanItems(dirPath, items, i + 1, depth)

_scanDirectory(dirPath, depth) ==
    IF depth > MaxDepth THEN <<>>
    ELSE LET dir == readdirSync(dirPath)
         IN  IF dir.threw THEN <<Listed(dirPath)>>            \* catch (error)
             ELSE <<Listed(dirPath)>> \o scanItems(dirPath, dir.items, 1, depth)

scanItems(dirPath, items, i, depth) ==
    IF i > Len(items) THEN <<>>
    ELSE LET item == items[i]
             fullPath == pathJoin(dirPath, item)
             stat == statSync(fullPath)
         IN  IF stat.threw THEN <<>>                          \* catch (error)
             ELSE (IF stat.isDirectory
                   THEN IF item \notin ignoredDirs
                        THEN _scanDirectory(fullPath, depth + 1)
                        ELSE <<>>
                   ELSE IF stat.isFile /\ _shouldIncludeFile(item, fullPath)
                        THEN << [name |-> item, path |-> fullPath,
                                 relativePath |-> pathRelative(projectPath, fullPath)] >>
                        ELSE <<>>)
                  \o scanItems(dirPath, items, i + 1, depth)

\* FileManager.scanProject: projectFiles starts empty and is filled by
\* _scanDirectory(projectPath)
scanProject == _scanDirectory(projectPath, 0)

(***************************************************************************)
(* ContextBuilder                                                          *)
(***************************************************************************)
maxContextLength == 8000

\* the length above which _buildFileContext truncates a file
MaxFileChars == 2000

\* matches taken per lookup in the keyword pass: slice(0, 3)
KeywordSlice == 3

\* entries of the history that _findRecentlyMentionedFiles looks at: slice(-4)
RecentWindow == 4

Separator == "========================================"

ContextHeader ==
    "=== PROJECT CONTEXT ===\n"
        \o "Here are the relevant files from the user's project:\n\n"

LimitNotice == "... (More files available but context limit reached)\n\n"

ContextFooter == "=== END PROJECT CONTEXT ===\n\n"

ErrorText == "[Error: Could not read file]"

TruncatedMarker == "\n... [File truncated]\n"

keywordToFileType ==
    << [keyword |-> "main",
        patterns |-> <<"main.js", "main.py", "index.js", "app.js", "main.cpp">>],
       [keyword |-> "config",
        patterns |-> <<".config", "config.js", "config.json", "package.json">>],
       [keyword |-> "readme",    patterns |-> <<"README.md", "readme.txt">>],
       [keyword |-> "test",      patterns |-> <<"test", "spec", "__test__">>],
       [keyword |-> "component", patterns |-> <<".jsx", ".tsx", ".vue">>],
       [keyword |-> "style",     patterns |-> <<".css", ".scss", ".sass">>],
       [keyword |-> "database",  patterns |-> <<"db", "database", ".sql">>],
       [keyword |-> "api",       patterns |-> <<"api", "routes", "endpoints">>],
       [keyword |-> "auth",      patterns |-> <<"auth", "login", "authentication">>] >>

\* literalPass with the test of the matches inverted: nothing is pushed
literalPassNoPush(message) == <<>>

\* the first loop of _findMentionedFiles: pushes of the five file patterns
literalPass(message) ==
    Flatten([pat \in 1..5 |->
        LET matches == matchAll(message, 1, pat)
        IN  Flatten([k \in DOMAIN matches |->
                relativePaths(findFiles(cleanMatch(matches[k])))])])

\* the pushes for entry e of the keyword table: for each of its patterns, the
\* first three files that findFiles returns
keywordPushes(e) ==
    Flatten([k \in DOMAIN keywordToFileType[e].patterns |->
        relativePaths(Take(findFiles(keywordToFileType[e].patterns[k]),
                           KeywordSlice))])

\* the second loop of _findMentionedFiles: pushes of the keyword table
keywordPass(message) ==
    LET lowerMessage == toLowerCase(message)
    IN  Flatten([e \in DOMAIN keywordToFileType |->
            IF includes(lowerMessage, keywordToFileType[e].keyword)
            THEN keywordPushes(e)
            ELSE <<>>])

\* _findMentionedFiles returning mentionedFiles as pushed
mentionedAsPushed(message) == literalPass(message) \o keywordPass(message)

\* ContextBuilder._findMentionedFiles: [...new Set(mentionedFiles)]
_findMentionedFiles(message) == Dedup(literalPass(message) \o keywordPass(message))

\* _findRecentlyMentionedFiles scanning the turns of the assistant
recentFromAssistant(history) ==
    LET recentMessages == LastK(history, RecentWindow)
    IN  Dedup(Flatten([i \in DOMAIN recentMessages |->
            IF recentMessages[i].role = "assistant"
            THEN _findMentionedFiles(recentMessages[i].content)
            ELSE <<>>]))

\* _findRecentlyMentionedFiles taking the last four user turns
recentUserTurns(history) ==
    LET userTurns == SelectSeq(history, LAMBDA t : t.role = "user")
        recentMessages == LastK(userTurns, RecentWindow)
    IN  Dedup(Flatten([i \in DOMAIN recentMessages |->
            _findMentionedFiles(recentMessages[i].content)]))

_findRecentlyMentionedFiles(history) ==
    LET recentMessages == LastK(history, RecentWindow)
    IN  Dedup(Flatten([i \in DOMAIN recentMessages |->
            IF recentMessages[i].role = "user"
            THEN _findMentionedFiles(recentMessages[i].content)
            ELSE <<>>]))

\* _buildFileContext truncating from 2000 characters on
_buildFileContextFrom(filePath) ==
    LET content == readFile(filePath)
    IN  IF content.null \/ content.n = 0
        THEN Str("FILE: " \o filePath \o "\n" \o ErrorText \o "\n\n")
        ELSE LET truncatedContent ==
                     IF content.n >= MaxFileChars
                     THEN TextCat(<<Slice(content.f, content.n, MaxFileChars)>>,
                                  Str(TruncatedMarker))
                     ELSE <<Slice(content.f, content.n, content.n)>>
             IN  TextCat(Str("FILE: " \o filePath \o "\n" \o Separator \o "\n"),
                     TextCat(truncatedContent,
                             Str("\n" \o Separator \o "\n\n")))

\* _buildFileContext leaving out a file that could not be read
_buildFileContextOmit(filePath) ==
    LET content == readFile(filePath)
    IN  IF content.null \/ content.n = 0
        THEN <<>>
        ELSE LET truncatedContent ==
                     IF content.n > MaxFileChars
                     THEN TextCat(<<Slice(content.f, content.n, MaxFileChars)>>,
                                  Str(TruncatedMarker))
                     ELSE <<Slice(content.f, content.n, content.n)>>
             IN  TextCat(Str("FILE: " \o filePath \o "\n" \o Separator \o "\n"),
                     TextCat(truncatedContent,
                             Str("\n" \o Separator \o "\n\n")))

\* the block of one file: label, separator lines and the content read
_buildFileContext(filePath) ==
    LET content == readFile(filePath)
    IN  IF content.null \/ content.n = 0         \* if (!content)
        THEN Str("FILE: " \o filePath \o "\n" \o ErrorText \o "\n\n")
        ELSE LET truncatedContent ==
                     IF content.n > MaxFileChars
                     THEN TextCat(<<Slice(content.f, content.n, MaxFileChars)>>,
                                  Str(TruncatedMarker))
                     ELSE <<Slice(content.f, content.n, content.n)>>
             IN  TextCat(Str("FILE: " \o filePath \o "\n" \o Separator \o "\n"),
                     TextCat(truncatedContent,
                             Str("\n" \o Separator \o "\n\n")))

\* filesToInclude leaving out what the context of the turn before holds
filesToIncludeNew(userMessage, history) ==
    SelectSeq(Dedup(_findMentionedFiles(userMessage)
                        \o _findRecentlyMentionedFiles(history)),
              LAMBDA f : f \notin Range(currentContext))

\* filesToInclude going on from the context of the turn before
filesToIncludeKept(userMessage, history) ==
    Dedup(_findMentionedFiles(userMessage)
              \o _findRecentlyMentionedFiles(history) \o currentContext)

\* filesToInclude as an array: a path found twice is kept twice
filesToIncludeArray(userMessage, history) ==
    _findMentionedFiles(userMessage) \o _findRecentlyMentionedFiles(history)

\* new Set([...mentionedFiles, ...recentlyMentioned])
filesToInclude(userMessage, history) ==
    Dedup(_findMentionedFiles(userMessage)
              \o _findRecentlyMentionedFiles(history))

\* packFrom with the break lost: an entry that does not fit is skipped and the
\* loop goes on
RECURSIVE packFromNoBreak(_, _, _, _)
packFromNoBreak(files, i, context, currentLength) ==
    IF i > Len(files) THEN context
    ELSE LET fileContext == _buildFileContext(files[i])
         IN  IF currentLength + TextLen(fileContext) > maxContextLength
             THEN packFromNoBreak(files, i + 1, TextCat(context, Str(LimitNotice)),
                                  currentLength)
             ELSE packFromNoBreak(files, i + 1, TextCat(context, fileContext),
                                  currentLength + TextLen(fileContext))

\* the for loop of buildContext from entry i on: the context when it ends
RECURSIVE packFrom(_, _, _, _)
packFrom(files, i, context, currentLength) ==
    IF i > Len(files) THEN context
    ELSE LET fileContext == _buildFileContext(files[i])
         IN  IF currentLength + TextLen(fileContext) > maxContextLength
             THEN TextCat(context, Str(LimitNotice))          \* break
             ELSE packFrom(files, i + 1, TextCat(context, fileContext),
                           currentLength + TextLen(fileContext))

\* packContext without the test of the size of the selection
packContextAlways(files) ==
    TextCat(packFrom(files, 1, Str(ContextHeader), 0), Str(ContextFooter))

\* the for loop of buildContext from entry i on: an exception leaves it
RECURSIVE packThrows(_, _, _)
packThrows(files, i, currentLength) ==
    IF i > Len(files) THEN FALSE
    ELSE IF readFile(files[i]).threw THEN TRUE
    ELSE LET fileContext == _buildFileContext(files[i])
         IN  IF currentLength + TextLen(fileContext) > maxContextLength
             THEN FALSE                                        \* break
             ELSE packThrows(files, i + 1, currentLength + TextLen(fileContext))

\* the string buildContext returns for a selection
packContext(files) ==
    IF Len(files) > 0
    THEN TextCat(packFrom(files, 1, Str(ContextHeader), 0), Str(ContextFooter))
    ELSE <<>>

(***************************************************************************)
(* ChatSession                                                             *)
(***************************************************************************)
WhiteSpace == {" ", "\t", "\n"}

RECURSIVE trimStart(_)
trimStart(str) ==
    IF str # "" /\ Char(str, 1) \in WhiteSpace
    THEN trimStart(SubSeq(str, 2, Len(str)))
    ELSE str

RECURSIVE trimEnd(_)
trimEnd(str) ==
    IF str # "" /\ Char(str, Len(str)) \in WhiteSpace
    THEN trimEnd(SubSeq(str, 1, Len(str) - 1))
    ELSE str

\* String.prototype.trim
trim(str) == trimEnd(trimStart(str))

\* isExitCommand comparing the message as typed
isExitCommandAsTyped(message) == message \in {"quit", "exit", "bye", "q"}

isExitCommand(message) == toLowerCase(message) \in {"quit", "exit", "bye", "q"}

isFilesCommand(message) ==
    toLowerCase(message) \in {"files", "ls", "list files", "show files"}

\* what showProjectFiles does is printing
handleSpecialCommands(userMessage) == isFilesCommand(userMessage)

\* the number of entries addToHistory keeps
HistoryLimit == 20

\* addToHistory keeping the oldest entries when the history is full
addToHistoryOldest(history, role, content) ==
    LET pushed == Append(history, [role |-> role, content |-> content])
    IN  IF Len(pushed) > HistoryLimit
        THEN Take(pushed, HistoryLimit)
        ELSE pushed

\* ChatSession.addToHistory: the history after the call
addToHistory(history, role, content) ==
    LET pushed == Append(history, [role |-> role, content |-> content])
    IN  IF Len(pushed) > HistoryLimit
        THEN LastK(pushed, HistoryLimit)                  \* slice(-20)
        ELSE pushed

\* ApiClient.sendMessageWithHistory: the body of the request it posts
sendMessageWithHistory(messageHistory) == [messages |-> messageHistory]

\* ApiClient.sendMessageWithContext(model, messageHistory, context): the
\* context goes in front of the user's message, the last of the history
sendMessageWithContext(messageHistory, context) ==
    sendMessageWithHistory(
        [i \in DOMAIN messageHistory |->
            [role |-> messageHistory[i].role,
             content |-> IF i = Len(messageHistory)
                         THEN TextCat(context, Str(messageHistory[i].content))
                         ELSE Str(messageHistory[i].content)]])

\* the characters of a text, those of file contents left out
RECURSIVE Flat(_)
Flat(t) == IF t = <<>> THEN "" ELSE t[1].s \o Flat(Tail(t))

\* processUserMessage putting the message with its context into the history
processUserMessagePrefixed(userMessage, history, context) ==
    LET messageWithContext ==
            IF context # <<>> THEN TextCat(context, Str(userMessage))
            ELSE Str(userMessage)
        added == addToHistory(history, "user", Flat(messageWithContext))
    IN  [conversationHistory |-> added,
         request |-> sendMessageWithContext(added, context)]

\* processUserMessage after a buildContext that takes the window out of the
\* history it is handed (splice(-4) for slice(-4))
processUserMessageSpliced(userMessage, history, context) ==
    LET left == SubSeq(history, 1, IF Len(history) > RecentWindow
                                   THEN Len(history) - RecentWindow ELSE 0)
        added == addToHistory(left, "user", userMessage)
    IN  [conversationHistory |-> added,
         request |-> sendMessageWithContext(added, context)]

\* processUserMessage handing no context to the transport
processUserMessageBare(userMessage, history, context) ==
    LET added == addToHistory(history, "user", userMessage)
    IN  [conversationHistory |-> added,
         request |-> sendMessageWithContext(added, <<>>)]

\* ChatSession.processUserMessage from the context built to the await: the
\* history with the user's turn and the request handed to the transport
processUserMessage(userMessage, history, context) ==
    LET added == addToHistory(history, "user", userMessage)
    IN  [conversationHistory |-> added,
         request |-> sendMessageWithContext(added, context)]

(***************************************************************************)
(* RetryHandler                                                            *)
(***************************************************************************)
\* a number, and the value undefined
Num(n) == [undef |-> FALSE, n |-> n]
Undefined == [undef |-> TRUE, n |-> 0]

\* attempt <= limit: false when limit is undefined
LessEq(attempt, limit) == ~limit.undef /\ attempt <= limit.n

\* attempt === limit
StrictEq(attempt, limit) == ~limit.undef /\ attempt = limit.n

\* the defaults of the constructor's parameters
DefaultMaxRetries == 3
DefaultBaseDelay == 1000

\* new RetryHandler(maxretries, baseDelay): the fields of the handler; an
\* argument left out (undefined) takes the default; maxRetries is assigned
\* from this.maxRetries, which nothing has set
RetryHandlerNew(maxretriesArg, baseDelayArg) ==
    LET maxretries == IF maxretriesArg.undef THEN Num(DefaultMaxRetries)
                      ELSE maxretriesArg
        baseDelay == IF baseDelayArg.undef THEN Num(DefaultBaseDelay)
                     ELSE baseDelayArg
    IN  [maxRetries |-> Undefined, baseDelay |-> baseDelay]

\* what an invocation of asyncFn comes to: a result, or an error with the
\* status of its response (status 0: an error without a response); id tells
\* which invocation it was; NoValue is the value undefined
Resolved(id) == [undef |-> FALSE, ok |-> TRUE, status |-> 0, id |-> id]
Rejected(status, id) == [undef |-> FALSE, ok |-> FALSE, status |-> status, id |-> id]
NoValue == [undef |-> TRUE, ok |-> FALSE, status |-> 0, id |-> 0]

\* shouldNotRetry without the test of status 402
shouldNotRetryQuota(error) ==
    IF error.status # 0 /\ error.status = 401 THEN TRUE
    ELSE IF error.status # 0 /\ error.status = 400 THEN TRUE
    ELSE FALSE

\* RetryHandler.shouldNotRetry
shouldNotRetry(error) ==
    IF error.status # 0 /\ error.status = 401 THEN TRUE
    ELSE IF error.status # 0 /\ error.status = 400 THEN TRUE
    ELSE IF error.status # 0 /\ error.status = 402 THEN TRUE
    ELSE FALSE

\* the for loop of executeWithRetry at its test, with attempt: asyncFn is
\* invoked and awaited, or the loop is left and lastError thrown
loopTest(r, attempt) ==
    IF LessEq(attempt, r.maxRetries)
    THEN [r EXCEPT !.pc = "awaiting", !.attempt = attempt,
                   !.invoked = r.invoked + 1]
    ELSE [r EXCEPT !.pc = "done", !.attempt = attempt,
                   !.result = [kind |-> "thrown", value |-> r.lastError]]

\* the catch block of executeWithRetry for the error of this attempt
catchError(r, error) ==
    LET caught == [r EXCEPT !.lastError = error]
    IN  IF shouldNotRetry(error)
        THEN [caught EXCEPT !.pc = "done",
                            !.result = [kind |-> "thrown", value |-> error]]
        ELSE IF StrictEq(r.attempt, r.maxRetries)
        THEN [caught EXCEPT !.pc = "done",
                            !.result = [kind |-> "thrown", value |-> error]]
        ELSE [caught EXCEPT !.pc = "sleeping", !.sleeps = r.sleeps + 1]

(***************************************************************************)
(* The project, the inputs and the file system of the model                *)
(***************************************************************************)
ProjectDir == "/proj"

IndexEntry(rel, base) ==
    [name |-> base, path |-> pathJoin(ProjectDir, rel), relativePath |-> rel]

\* what scanProject leaves in projectFiles for the project of the model
ScanResult ==
    << IndexEntry("lib/api.js", "api.js"),
       IndexEntry("parser.ts", "parser.ts"),
       IndexEntry("spec/e.spec.js", "e.spec.js"),
       IndexEntry("test/a.test.js", "a.test.js"),
       IndexEntry("test/b.test.js", "b.test.js"),
       IndexEntry("test/c.test.js", "c.test.js"),
       IndexEntry("test/d.test.js", "d.test.js") >>

\* the length of the longest query
MaxQueryLen == 6

\* the user messages of the model
Messages ==
    { "check parser.ts",
      "what about tests?",
      "hello there",
      "open nothere.py",
      "test.js \"parser.ts\"",
      "see 'lib/api.js'",
      "#PARSER.ts#" }

User(text) == [role |-> "user", content |-> text]
Assistant(text) == [role |-> "assistant", content |-> text]

\* the turns histories are made of
HistoryEntries == {User("check parser.ts"), Assistant("ok, see lib/api.js")}

\* the longest history handed to buildContext
MaxHistory == 5

RECURSIVE SeqsUpTo(_, _)
SeqsUpTo(S, k) ==
    IF k = 0 THEN {<<>>}
    ELSE LET shorter == SeqsUpTo(S, k - 1)
         IN  shorter \cup {Append(q, x) : q \in {r \in shorter : Len(r) = k - 1}, x \in S}

Histories == SeqsUpTo(HistoryEntries, MaxHistory)

\* the history of the continuity example
ExampleHistory == <<User("check parser.ts"), Assistant("ok")>>

File(len) == [st |-> "file", n |-> len]
Unreadable == [st |-> "eio", n |-> 0]      \* exists; reading it throws

\* the files whose state changes while the session runs, and the lengths
\* they are written with
Volatile == {"parser.ts", "test/b.test.js"}
WriteLens(rel) ==
    IF rel = "parser.ts" THEN {0, 500, 2000, 2001, 5000} ELSE {500, 5000}

\* the file system when the session starts: every indexed file exists
InitialDisks ==
    { [p \in {ScanResult[i].path : i \in DOMAIN ScanResult} |->
          CASE p = pathJoin(ProjectDir, "parser.ts")      -> File(np)
            [] p = pathJoin(ProjectDir, "test/b.test.js") -> File(nb)
            [] p = pathJoin(ProjectDir, "spec/e.spec.js") -> File(ne)
            [] p = pathJoin(ProjectDir, "lib/api.js")     -> File(500)
            [] OTHER                                      -> File(ng)]
      : np \in WriteLens("parser.ts"), nb \in WriteLens("test/b.test.js"),
        ne \in {500, 1500}, ng \in {500, 5000} }

\* again: the call repeats the arguments of the call recorded before it
NoCall ==
    [called |-> FALSE, threw |-> FALSE, userMessage |-> "",
     conversationHistory |-> <<>>, context |-> <<>>, selection |-> <<>>,
     again |-> FALSE, prior |-> <<>>]

(***************************************************************************)
(* The state machine                                                       *)
(***************************************************************************)
NoQuery == [asked |-> FALSE, query |-> "", files |-> <<>>]

NoRead == [asked |-> FALSE, filePath |-> "", content |-> Null]

\* tree: the file system the latest scan ran on
NotScanned == [done |-> FALSE, listed |-> <<>>, tree |-> <<>>]

\* new ContextBuilder and new ChatSession, the scan apart
Built ==
    /\ currentContext = <<>>
    /\ last = NoCall
    /\ running = TRUE
    /\ line = ""
    /\ requests = <<>>
    /\ pending = {}
    /\ found = NoQuery
    /\ got = NoRead
    /\ scanned = NotScanned

\* no RetryHandler is built: nothing of the session builds one
NoHandler == [pc |-> "none"]

\* new FileManager(): projectPath = process.cwd()
Started ==
    /\ projectPath = ProjectDir
    /\ cwd = ProjectDir
    /\ Built
    /\ retry = NoHandler

\* new FileManager() in the directory the scan ran in, new ContextBuilder
Constructed ==
    /\ projectFiles = ScanResult
    /\ Started

Init ==
    /\ Constructed
    /\ disk \in InitialDisks
    /\ conversationHistory \in {<<>>, ExampleHistory}
    /\ appended = conversationHistory

InitHistory ==
    /\ Constructed
    /\ disk \in {d \in InitialDisks : \A p \in DOMAIN d : d[p].n = 500}
    /\ conversationHistory \in Histories \cup {ExampleHistory}
    /\ appended = conversationHistory

\* ContextBuilder.buildContext(userMessage, conversationHistory): the call
\* returns the context and sets currentContext, or an exception ends it
buildContext(userMessage) ==
    \E selection \in {filesToInclude(userMessage, conversationHistory)} :
    \E threw \in {packThrows(selection, 1, 0)} :
        /\ currentContext' = IF threw THEN currentContext ELSE selection
        /\ last' = [called |-> ~threw, threw |-> threw,
                    userMessage |-> userMessage,
                    conversationHistory |-> conversationHistory,
                    context |-> IF threw THEN <<>> ELSE packContext(selection),
                    selection |-> IF threw THEN <<>> ELSE selection,
                    again |-> /\ last.called
                              /\ last.userMessage = userMessage
                              /\ last.conversationHistory = conversationHistory,
                    prior |-> IF last.called THEN <<>> ELSE last.prior]

\* a call of buildContext by a caller that holds the history
BuildContext(userMessage) ==
    /\ buildContext(userMessage)
    /\ UNCHANGED <<projectPath, cwd, projectFiles, disk, conversationHistory,
                   session>>

\* the environment: a file of the project changes while the session runs
SetFile(rel, state) ==
    /\ disk[pathJoin(ProjectDir, rel)] # state
    /\ disk' = [disk EXCEPT ![pathJoin(ProjectDir, rel)] = state]
    /\ last' = NoCall
    /\ got' = NoRead
    /\ UNCHANGED <<projectPath, cwd, projectFiles, currentContext,
                   conversationHistory, running, line, appended, requests,
                   pending, found, scanned, retry>>

Unlink(rel) == SetFile(rel, Missing)
Chmod(rel) == SetFile(rel, Unreadable)
WriteFile(rel, len) == SetFile(rel, File(len))

Calls == \E userMessage \in Messages : BuildContext(userMessage)

Next ==
    \/ Calls
    \/ \E rel \in Volatile : Unlink(rel)
    \/ \E rel \in Volatile : Chmod(rel)
    \/ \E rel \in Volatile : \E len \in WriteLens(rel) : WriteFile(rel, len)

Spec == Init /\ [][Next]_vars

SpecHistory == InitHistory /\ [][Calls]_vars

\* another project: names and directories with capital letters
MixedCaseScan ==
    << IndexEntry("README.md", "README.md"),
       IndexEntry("src/Main.js", "Main.js"),
       IndexEntry("main/Util.js", "Util.js"),
       IndexEntry("docs/readme.txt", "readme.txt") >>

Indexes == {ScanResult, MixedCaseScan, <<>>}

\* the queries: every piece of these texts, and the empty query
QuerySources == {"README.md", "Main.JS", "test/a.test.js", "lib/"}

Queries ==
    LET Cuts == {c \in QuerySources \X (1..14) \X (1..14) :
                     /\ c[2] <= c[3]
                     /\ c[3] <= Len(c[1])
                     /\ c[3] - c[2] < MaxQueryLen}
    IN  {""} \cup {SubSeq(c[1], c[2], c[3]) : c \in Cuts}

\* FileManager.findFiles(query)
FindFiles(query) ==
    /\ found' = [asked |-> TRUE, query |-> query, files |-> findFiles(query)]
    /\ UNCHANGED <<projectPath, cwd, projectFiles, disk, currentContext,
                   conversationHistory, last, running, line, appended, requests,
                   pending, got, scanned, retry>>

InitIndex ==
    /\ Started
    /\ projectFiles \in Indexes
    /\ disk = [p \in {} |-> Missing]
    /\ conversationHistory = <<>>
    /\ appended = <<>>

Lookups == \E query \in Queries : FindFiles(query)

SpecIndex == InitIndex /\ [][Lookups]_vars

\* the arrays of paths handed to includeFiles
ForcedPaths ==
    { <<"notes.md">>, <<"parser.ts", "lib/api.js">>, <<"notes.md", "notes.md">> }

\* ContextBuilder.includeFiles(filePaths)
IncludeFiles(filePaths) ==
    /\ currentContext' = Dedup(currentContext \o filePaths)
    /\ last' = [NoCall EXCEPT !.prior = currentContext']
    /\ UNCHANGED <<projectPath, cwd, projectFiles, disk, conversationHistory,
                   session>>

\* ContextBuilder.clearContext()
ClearContext ==
    /\ currentContext' = <<>>
    /\ last' = NoCall
    /\ UNCHANGED <<projectPath, cwd, projectFiles, disk, conversationHistory,
                   session>>

InitContext ==
    /\ Constructed
    /\ disk \in {d \in InitialDisks : \A p \in DOMAIN d : d[p].n = 500}
    /\ conversationHistory \in {<<>>, ExampleHistory}
    /\ appended = conversationHistory

NextContext ==
    \/ Calls
    \/ \E filePaths \in ForcedPaths : IncludeFiles(filePaths)
    \/ ClearContext

SpecContext == InitContext /\ [][NextContext]_vars

\* the entries the histories of SpecAppend are made of
AppendEntries ==
    {User("check parser.ts"), User("hello there"), Assistant("ok, see lib/api.js")}

\* how many entries are appended at most, and how many times at most an
\* appended entry differs from the one appended before it
MaxAppends == 23
MaxChanges == 2

Changes(q) == Cardinality({i \in 2..Len(q) : q[i] # q[i - 1]})

\* ChatSession.addToHistory(role, content)
AddToHistory(role, content) ==
    /\ Len(appended) < MaxAppends
    /\ Changes(Append(appended, [role |-> role, content |-> content])) <= MaxChanges
    /\ conversationHistory' = addToHistory(conversationHistory, role, content)
    /\ appended' = Append(appended, [role |-> role, content |-> content])
    /\ UNCHANGED <<projectPath, cwd, projectFiles, disk, currentContext, last,
                   running, line, requests, pending, found, got, scanned, retry>>

\* new ChatSession(apiClient, model)
InitSession ==
    /\ Constructed
    /\ disk \in {d \in InitialDisks : \A p \in DOMAIN d : d[p].n = 500}
    /\ conversationHistory = <<>>
    /\ appended = <<>>

Appends == \E e \in AppendEntries : AddToHistory(e.role, e.content)

SpecAppend == InitSession /\ [][Appends]_vars

\* the lines the user types and the answers of the model
Inputs ==
    { "  check parser.ts ", "what about tests?", "hello there\n", "Files", "   ",
      "QUIT" }

Replies == {"ok, see lib/api.js"}

\* how many messages a session processes at most
MaxTurns == 3

\* the line handler of the session: rl.on('line', ...) up to the await in
\* processUserMessage
onLine(input) ==
    /\ running
    /\ line' = input
    /\ LET userMessage == trim(input)
       IN  IF isExitCommand(userMessage)
           THEN /\ running' = FALSE                    \* stop(): process.exit(0)
                /\ UNCHANGED <<currentContext, last, conversationHistory,
                               appended, requests, pending>>
           ELSE IF handleSpecialCommands(userMessage) \/ userMessage = ""
           THEN UNCHANGED <<currentContext, last, conversationHistory,
                            appended, requests, pending, running>>
           ELSE /\ buildContext(userMessage)
                /\ IF last'.threw                          \* catch (error)
                   THEN UNCHANGED <<conversationHistory, appended, requests,
                                    pending>>
                   ELSE \E p \in {processUserMessage(userMessage,
                                      conversationHistory, last'.context)} :
                            /\ conversationHistory' = p.conversationHistory
                            /\ appended' = Append(appended,
                                   p.conversationHistory[Len(p.conversationHistory)])
                            /\ requests' = Append(requests, p.request)
                            /\ pending' = pending \cup {Len(requests) + 1}
                /\ UNCHANGED running
    /\ UNCHANGED <<projectPath, cwd, projectFiles, disk, found, got, scanned, retry>>

\* a line of the user, in a session of MaxTurns messages at most
Line(input) ==
    /\ Len(requests) < MaxTurns
    /\ onLine(input)

\* the transport answers request i: processUserMessage goes on after the await
Reply(i, aiResponse) ==
    /\ running
    /\ i \in pending
    /\ pending' = pending \ {i}
    /\ conversationHistory' = addToHistory(conversationHistory, "assistant", aiResponse)
    /\ appended' = Append(appended, [role |-> "assistant", content |-> aiResponse])
    /\ UNCHANGED <<projectPath, cwd, projectFiles, disk, currentContext, last,
                   running, line, requests, found, got, scanned, retry>>

\* the transport fails on request i: handleApiError ends the process
ApiError(i) ==
    /\ running
    /\ i \in pending
    /\ running' = FALSE
    /\ UNCHANGED <<projectPath, cwd, projectFiles, disk, currentContext, last,
                   conversationHistory, line, appended, requests, pending,
                   found, got, scanned, retry>>

NextSession ==
    \/ \E input \in Inputs : Line(input)
    \/ \E i \in pending : \E aiResponse \in Replies : Reply(i, aiResponse)
    \/ \E i \in pending : ApiError(i)

SpecSession == InitSession /\ [][NextSession]_vars

\* how many messages a session of answered turns processes at most
MaxRounds == 4

\* a line of the user once every request before it is answered
Turn(input) ==
    /\ pending = {}
    /\ Len(requests) < MaxRounds
    /\ onLine(input)

\* the sessions in which every transport call succeeds before the next
\* line arrives
NextTurns ==
    \/ \E input \in Inputs : Turn(input)
    \/ \E i \in pending : \E aiResponse \in Replies : Reply(i, aiResponse)

SpecTurns == InitSession /\ [][NextTurns]_vars

\* what the calls of RetryHandler leave alone
others ==
    <<projectPath, cwd, projectFiles, disk, currentContext, conversationHistory,
      last, running, line, appended, requests, pending, found, got, scanned>>

\* the arguments of the constructor: left out, or a number
MaxretriesArgs == {Undefined, Num(1), Num(2)}
BaseDelayArgs == {Undefined, Num(10)}

\* the statuses of the errors of asyncFn; 0 is an error without a response
Statuses == {401, 400, 402, 429, 503, 0}

\* what asyncFn does at its first, second, ... invocation: ok or the status
\* of its error; it resolves from then on
MaxScript == 3
Scripts ==
    SeqsUpTo([ok : {TRUE}, status : {0}] \cup [ok : {FALSE}, status : Statuses],
             MaxScript)

\* the values a caller assigns to handler.maxRetries
MaxAssigned == 3

\* a handler as the constructor leaves it, no call made; given: the value
\* of the parameter maxretries
NewHandler(maxretriesArg, baseDelayArg) ==
    LET fields == RetryHandlerNew(maxretriesArg, baseDelayArg)
    IN  [pc |-> "idle", maxRetries |-> fields.maxRetries,
         baseDelay |-> fields.baseDelay,
         given |-> IF maxretriesArg.undef THEN DefaultMaxRetries
                   ELSE maxretriesArg.n,
         assigned |-> FALSE, asyncFn |-> <<>>, attempt |-> 0, invoked |-> 0,
         sleeps |-> 0, lastError |-> NoValue, settled |-> <<>>,
         result |-> [kind |-> "none", value |-> NoValue]]

\* a caller sets the field itself: handler.maxRetries = n
Assign(n) ==
    /\ retry.pc = "idle"
    /\ ~retry.assigned
    /\ retry' = [retry EXCEPT !.maxRetries = Num(n), !.assigned = TRUE]
    /\ UNCHANGED others

\* RetryHandler.executeWithRetry(asyncFn) up to its first await or its end
ExecuteWithRetry(asyncFn) ==
    /\ retry.pc = "idle"
    /\ retry' = loopTest([retry EXCEPT !.asyncFn = asyncFn], 1)
    /\ UNCHANGED others

\* the invocation of asyncFn settles: return await asyncFn(), or the catch
\* block up to await this.sleep(delay)
Settle ==
    /\ retry.pc = "awaiting"
    /\ LET id == retry.invoked
           does == IF id <= Len(retry.asyncFn) THEN retry.asyncFn[id]
                   ELSE [ok |-> TRUE, status |-> 0]
           outcome == IF does.ok THEN Resolved(id) ELSE Rejected(does.status, id)
           r == [retry EXCEPT !.settled = Append(retry.settled, outcome)]
       IN  retry' = IF outcome.ok
                    THEN [r EXCEPT !.pc = "done",
                                   !.result = [kind |-> "returned", value |-> outcome]]
                    ELSE catchError(r, outcome)
    /\ UNCHANGED others

\* the backoff sleep ends: attempt++ and the test of the loop
Wake ==
    /\ retry.pc = "sleeping"
    /\ retry' = loopTest(retry, retry.attempt + 1)
    /\ UNCHANGED others

\* new RetryHandler(...) next to a session that was just built
InitRetry ==
    /\ projectPath = ProjectDir
    /\ cwd = ProjectDir
    /\ Built
    /\ projectFiles = <<>>
    /\ disk = [p \in {} |-> Missing]
    /\ conversationHistory = <<>>
    /\ appended = <<>>
    /\ retry \in {NewHandler(maxretriesArg, baseDelayArg) :
                      maxretriesArg \in MaxretriesArgs,
                      baseDelayArg \in BaseDelayArgs}

NextRetry ==
    \/ \E n \in 1..MaxAssigned : Assign(n)
    \/ \E asyncFn \in Scripts : ExecuteWithRetry(asyncFn)
    \/ Settle
    \/ Wake

SpecRetry == InitRetry /\ [][NextRetry]_vars

\* a directory that is not the project's
OtherDir == "/home/user"

\* the arguments of readFile: both paths of every indexed file, paths of
\* files that never existed, the empty path
ReadArgs ==
    {projectFiles[i].relativePath : i \in DOMAIN projectFiles}
    \cup {projectFiles[i].path : i \in DOMAIN projectFiles}
    \cup {"notes.md", pathJoin(ProjectDir, "notes.md"), ""}

\* FileManager.readFile(filePath)
ReadFile(filePath) ==
    /\ got' = [asked |-> TRUE, filePath |-> filePath, content |-> readFile(filePath)]
    /\ UNCHANGED <<projectPath, cwd, projectFiles, disk, currentContext,
                   conversationHistory, last, running, line, appended, requests,
                   pending, found, scanned, retry>>

\* new FileManager(projectPath) in a process whose working directory is the
\* project or another directory, after the scan
InitFiles ==
    /\ projectPath = ProjectDir
    /\ cwd \in {ProjectDir, OtherDir}
    /\ Built
    /\ retry = NoHandler
    /\ projectFiles = ScanResult
    /\ disk \in {d \in InitialDisks : \A p \in DOMAIN d : d[p].n = 500}
    /\ conversationHistory = <<>>
    /\ appended = <<>>

NextFiles ==
    \/ \E filePath \in ReadArgs : ReadFile(filePath)
    \/ \E rel \in Volatile : Unlink(rel)
    \/ \E rel \in Volatile : Chmod(rel)
    \/ \E rel \in Volatile : \E len \in WriteLens(rel) : WriteFile(rel, len)

SpecFiles == InitFiles /\ [][NextFiles]_vars

Dir(items) == [st |-> "dir", n |-> 0, items |-> items]
Locked == [st |-> "locked", n |-> 0]        \* a directory that cannot be listed
Link(to) == [st |-> "link", n |-> 0, to |-> to]

\* a project tree: edge.py of edgeSize bytes, the directory lockedDir not
\* listable, a link to nothing named dead in the directory deadIn (none
\* when ""), a link named loop from a back to a when loop holds;
\* readdirSync lists the names in the order of items
Tree(edgeSize, lockedDir, deadIn, loop) ==
    LET at(rel) == pathJoin(ProjectDir, rel)
        dead(dirPath) == IF deadIn = dirPath THEN <<"dead">> ELSE <<>>
        dir(dirPath, items) == IF lockedDir = dirPath THEN Locked
                               ELSE Dir(dead(dirPath) \o items)
    IN  (ProjectDir :> Dir(<<".gitignore", "a", "build">> \o dead(ProjectDir)
                           \o <<"docs", "edge.py", "main.js", "notes.doc",
                                "package-lock.json">>))
        @@ (at(".gitignore") :> File(10))
        @@ (at("a") :> Dir(<<"b">> \o (IF loop THEN <<"loop">> ELSE <<>>)
                           \o <<"node_modules", "y.js">>))
        @@ (at("a/b") :> dir(at("a/b"), <<"c">>))
        @@ (at("a/b/c") :> Dir(<<"d">>))
        @@ (at("a/b/c/d") :> Dir(<<"e">>))
        @@ (at("a/b/c/d/e") :> dir(at("a/b/c/d/e"), <<"f", "x5.js">>))
        @@ (at("a/b/c/d/e/x5.js") :> File(100))
        @@ (at("a/b/c/d/e/f") :> Dir(<<"x6.js">>))
        @@ (at("a/b/c/d/e/f/x6.js") :> File(100))
        @@ (IF loop THEN at("a/loop") :> Link(at("a")) ELSE <<>>)
        @@ (at("a/node_modules") :> Dir(<<"dep.js">>))
        @@ (at("a/node_modules/dep.js") :> File(100))
        @@ (at("a/y.js") :> File(100))
        @@ (at("build") :> Dir(<<"out.js">>))
        @@ (at("build/out.js") :> File(100))
        @@ (IF deadIn # "" THEN pathJoin(deadIn, "dead") :> Link("/gone") ELSE <<>>)
        @@ (at("docs") :> dir(at("docs"), <<"guide.md">>))
        @@ (at("docs/guide.md") :> File(100))
        @@ (at("edge.py") :> File(edgeSize))
        @@ (at("main.js") :> File(100))
        @@ (at("notes.doc") :> File(100))
        @@ (at("package-lock.json") :> File(100))

ScanDisks ==
    { Tree(edgeSize, lockedDir, deadIn, loop) :
          edgeSize \in {MaxFileSize, MaxFileSize + 1},
          lockedDir \in {"", pathJoin(ProjectDir, "docs"), pathJoin(ProjectDir, "a/b")},
          deadIn \in {"", ProjectDir, pathJoin(ProjectDir, "docs"),
                      pathJoin(ProjectDir, "a/b/c/d/e")},
          loop \in BOOLEAN }

\* FileManager.scanProject()
ScanProject ==
    /\ \E pushed \in {scanProject} :
           /\ projectFiles' = SelectSeq(pushed, LAMBDA x : ~IsListed(x))
           /\ scanned' = [done |-> TRUE,
                          listed |-> LET q == SelectSeq(pushed, IsListed)
                                     IN  [i \in DOMAIN q |-> q[i].listed],
                          tree |-> disk]
    /\ UNCHANGED <<projectPath, cwd, disk, currentContext, conversationHistory,
                   last, running, line, appended, requests, pending, found, got,
                   retry>>

\* the environment: the project tree changes between two scans
ChangeTree(tree) ==
    /\ disk # tree
    /\ disk' = tree
    /\ scanned' = [NotScanned EXCEPT !.tree = scanned.tree]
    /\ UNCHANGED <<projectPath, cwd, projectFiles, currentContext,
                   conversationHistory, last, running, line, appended, requests,
                   pending, found, got, retry>>

\* new FileManager(): projectFiles = []
InitScan ==
    /\ Started
    /\ projectFiles = <<>>
    /\ disk \in ScanDisks
    /\ conversationHistory = <<>>
    /\ appended = <<>>

NextScan ==
    \/ ScanProject
    \/ \E tree \in ScanDisks : ChangeTree(tree)

SpecScan == InitScan /\ [][NextScan]_vars

(***************************************************************************)
(* What the properties speak of                                            *)
(***************************************************************************)
\* offset (from 0) of the first occurrence of needle in str, -1 when none
indexOf(str, needle) ==
    IF includes(str, needle)
    THEN (CHOOSE i \in 1..(Len(str) - Len(needle) + 1) :
              /\ SubSeq(str, i, i + Len(needle) - 1) = needle
              /\ \A j \in 1..(i - 1) : SubSeq(str, j, j + Len(needle) - 1) # needle) - 1
    ELSE -1

\* offset in a text of the first occurrence of needle among its literal
\* characters, -1 when none
RECURSIVE OffsetIn(_, _)
OffsetIn(text, needle) ==
    IF text = <<>> THEN -1
    ELSE IF IsLit(text[1]) /\ includes(text[1].s, needle)
         THEN indexOf(text[1].s, needle)
         ELSE LET rest == OffsetIn(Tail(text), needle)
              IN  IF rest = -1 THEN -1 ELSE TextLen(<<text[1]>>) + rest

Contains(text, needle) == OffsetIn(text, needle) # -1

StartsWith(text, str) ==
    text # <<>> /\ IsLit(text[1]) /\ SubSeq(text[1].s, 1, Len(str)) = str

EndsWith(text, str) ==
    /\ text # <<>>
    /\ IsLit(text[Len(text)])
    /\ LET z == text[Len(text)].s
       IN  Len(z) >= Len(str) /\ SubSeq(z, Len(z) - Len(str) + 1, Len(z)) = str

FileLabel(rel) == "FILE: " \o rel \o "\n"

\* the text holds a FILE block for the path
HasFileBlock(text, rel) == Contains(text, FileLabel(rel))

HasNotice(text) == Contains(text, LimitNotice)

\* the sum of the lengths of the blocks of the first j entries of a selection
RECURSIVE BlocksLen(_, _)
BlocksLen(sel, j) ==
    IF j = 0 THEN 0 ELSE BlocksLen(sel, j - 1) + TextLen(_buildFileContext(sel[j]))

\* the length of the longest prefix of a selection whose blocks fit the budget
FitCount(sel) ==
    CHOOSE k \in 0..Len(sel) :
        /\ BlocksLen(sel, k) <= maxContextLength
        /\ k < Len(sel) => BlocksLen(sel, k + 1) > maxContextLength

RECURSIVE BlocksText(_, _)
BlocksText(sel, j) ==
    IF j = 0 THEN <<>>
    ELSE TextCat(BlocksText(sel, j - 1), _buildFileContext(sel[j]))

\* the indices of the entries of a history that lie in its last four
InWindow(h) == {i \in DOMAIN h : i > Len(h) - 4}

(***************************************************************************)
(* Properties                                                              *)
(***************************************************************************)

\* C1: the text buildContext returns is never longer than maxContextLength
\* (8000 characters), header, file blocks, limit notice and footer all counted.
C1_TextWithinBudget ==
    last.called => TextLen(last.context) <= maxContextLength

\* C2: the text buildContext returns is never longer than maxContextLength
\* plus the length of the one limit notice.
C2_TextWithinBudgetPlusNotice ==
    last.called => TextLen(last.context) <= maxContextLength + Len(LimitNotice)

\* C3: the blocks emitted are, in selection order, exactly those of the longest
\* prefix of the selection whose blocks together fit the budget; the first
\* entry that does not fit is left out whole, one limit notice follows, and no
\* later entry is emitted even when its block alone would still fit; the
\* notice is there if and only if an entry was dropped.
C3_LongestFittingPrefix ==
    last.called /\ last.selection # <<>> =>
        LET sel == last.selection
            k   == FitCount(sel)
        IN  /\ last.context =
                   TextCat(Str(ContextHeader),
                     TextCat(BlocksText(sel, k),
                       TextCat(IF k < Len(sel) THEN Str(LimitNotice) ELSE <<>>,
                               Str(ContextFooter))))
            /\ HasNotice(last.context) <=> k < Len(sel)
            /\ \A i \in DOMAIN sel : HasFileBlock(last.context, sel[i]) <=> i <= k
            /\ \A i, j \in 1..k :
                   i < j => OffsetIn(last.context, FileLabel(sel[i]))
                                < OffsetIn(last.context, FileLabel(sel[j]))

\* C3 witness: an entry was dropped at the limit, and a later entry whose
\* block would still have fitted was not emitted either.
C3_Witness ==
    /\ last.called
    /\ LET sel == last.selection
           k   == FitCount(sel)
       IN  /\ k >= 1
           /\ HasNotice(last.context)
           /\ \E i \in DOMAIN sel :
                  /\ i > k + 1
                  /\ BlocksLen(sel, k) + TextLen(_buildFileContext(sel[i]))
                         <= maxContextLength
                  /\ ~HasFileBlock(last.context, sel[i])

\* the indexed files whose name stands in the message between two quotation
\* marks of one kind
QuotedInMessage(message) ==
    {i \in DOMAIN projectFiles :
        \E q \in {BackTick, DoubleQuote, SingleQuote} :
            includes(message, q \o projectFiles[i].name \o q)}

C5_Continuity ==
    last.called =>
        /\ currentContext = last.selection
        /\ \A i \in InWindow(last.conversationHistory) :
               last.conversationHistory[i].role = "user" =>
                   Range(_findMentionedFiles(last.conversationHistory[i].content))
                       \subseteq Range(last.selection)

\* C5 witness: the example; the history names parser.ts, the new message
\* names no file and has the keyword test: both kinds of file are selected.
C5_Witness ==
    /\ last.called
    /\ last.conversationHistory = ExampleHistory
    /\ last.userMessage = "what about tests?"
    /\ literalPass(last.userMessage) = <<>>
    /\ "parser.ts" \notin Range(_findMentionedFiles(last.userMessage))
    /\ {"parser.ts", "test/a.test.js"} \subseteq Range(currentContext)

\* what the user turns among the last four entries of a history yield
WindowFiles(h) ==
    Dedup(Flatten([i \in DOMAIN h |->
        IF i \in InWindow(h) /\ h[i].role = "user"
        THEN _findMentionedFiles(h[i].content)
        ELSE <<>>]))

\* C6: the window is the last four entries of the history, both roles
\* counted, and only its user turns are scanned: the call returns what it
\* returns for the last four entries alone, no file comes from an assistant
\* turn or from a turn before the window.
C6_WindowOfFour ==
    last.called =>
        LET h == last.conversationHistory
            m == last.userMessage
        IN  /\ last.selection = Dedup(_findMentionedFiles(m) \o WindowFiles(h))
            /\ last.selection = filesToInclude(m, LastK(h, 4))
            /\ last.context = packContext(filesToInclude(m, LastK(h, 4)))
            /\ \A f \in Range(last.selection) :
                   \/ f \in Range(_findMentionedFiles(m))
                   \/ \E i \in InWindow(h) :
                          /\ h[i].role = "user"
                          /\ f \in Range(_findMentionedFiles(h[i].content))

\* C6 witness: a user turn that names parser.ts followed by four assistant
\* turns that name lib/api.js, and a message that names nothing: no file.
C6_Witness ==
    /\ last.called
    /\ Len(last.conversationHistory) = 5
    /\ last.conversationHistory[1] = User("check parser.ts")
    /\ \A i \in 2..5 : last.conversationHistory[i] = Assistant("ok, see lib/api.js")
    /\ _findMentionedFiles(last.userMessage) = <<>>
    /\ last.selection = <<>>
    /\ last.context = <<>>

\* C7: a call of buildContext that follows a call with the same message and
\* the same history, no file having changed in between, returns the same
\* text and leaves the same selection in currentContext.
C7_Idempotent ==
    [][(/\ last.called
        /\ last'.called
        /\ last'.userMessage = last.userMessage
        /\ last'.conversationHistory = last.conversationHistory)
       => (/\ last'.context = last.context
           /\ last'.selection = last.selection
           /\ currentContext' = currentContext)]_vars

\* C7 witness: the second of two equal calls has returned, with files.
C7_Witness ==
    /\ last.called
    /\ last.again
    /\ Len(currentContext) > 1
    /\ last.context # <<>>

\* no file is matched for the message or for a user turn of the window
NothingMatched(message, h) ==
    /\ _findMentionedFiles(message) = <<>>
    /\ \A i \in InWindow(h) :
           h[i].role = "user" => _findMentionedFiles(h[i].content) = <<>>

\* C8: the returned text is empty exactly when the selection is empty, which
\* is exactly when neither the message nor a user turn of the window matches
\* a file of the index; a text for a selection that is not empty starts with
\* the header and ends with the footer.
C8_EmptyIffNoSelection ==
    last.called =>
        /\ (last.context = <<>>) <=> (last.selection = <<>>)
        /\ (last.selection = <<>>)
               <=> NothingMatched(last.userMessage, last.conversationHistory)
        /\ last.context = <<>> =>
               /\ ~Contains(last.context, ContextHeader)
               /\ ~Contains(last.context, ContextFooter)
        /\ last.selection # <<>> =>
               /\ StartsWith(last.context, ContextHeader)
               /\ EndsWith(last.context, ContextFooter)

\* C8 witness: the message names a file that is not in the index; the token
\* is dropped and the returned text is empty.
C8_Witness ==
    /\ last.called
    /\ last.userMessage = "open nothere.py"
    /\ matchAll(last.userMessage, 1, 1) = <<"nothere.py">>
    /\ last.conversationHistory = <<>>
    /\ last.context = <<>>
    /\ currentContext = <<>>

\* the pieces of a text that are file content
ContentPieces(text) == {j \in DOMAIN text : ~IsLit(text[j])}

\* the literal piece j of a text starts with str
PieceStartsWith(text, j, str) ==
    /\ j \in DOMAIN text
    /\ IsLit(text[j])
    /\ SubSeq(text[j].s, 1, Len(str)) = str

\* C9: the block of a file read with content of n > 0 characters holds the
\* content once: its first 2000 characters and then the marker when
\* n > 2000, all of it and no marker when n <= 2000; and so it stands in the
\* returned text when the block is emitted.
C9_Truncation ==
    last.called =>
        \A i \in DOMAIN last.selection :
            LET rel == last.selection[i]
                content == readFile(rel)
                block == _buildFileContext(rel)
            IN  (~content.null /\ content.n > 0) =>
                    /\ Cardinality(ContentPieces(block)) = 1
                    /\ \A j \in ContentPieces(block) :
                           /\ block[j].f = content.f
                           /\ block[j].n = content.n
                           /\ block[j].hi = IF content.n > 2000 THEN 2000 ELSE content.n
                           /\ PieceStartsWith(block, j + 1, TruncatedMarker)
                                  <=> content.n > 2000
                           /\ content.n <= 2000 =>
                                  PieceStartsWith(block, j + 1, "\n" \o Separator)
                    /\ Contains(block, TruncatedMarker) <=> content.n > 2000
                    /\ i <= FitCount(last.selection) =>
                           \E j \in ContentPieces(last.context) :
                               /\ last.context[j].f = content.f
                               /\ last.context[j].hi =
                                      IF content.n > 2000 THEN 2000 ELSE content.n
                               /\ PieceStartsWith(last.context, j + 1, TruncatedMarker)
                                      <=> content.n > 2000

\* C9 witness: one text holds a file of 5000 characters cut to 2000 with the
\* marker, a file of exactly 2000 characters in full and a file of 500
\* characters in full.
C9_Witness ==
    /\ last.called
    /\ \E j \in ContentPieces(last.context) :
           /\ last.context[j].n = 5000
           /\ last.context[j].hi = 2000
           /\ PieceStartsWith(last.context, j + 1, TruncatedMarker)
    /\ \E j \in ContentPieces(last.context) :
           /\ last.context[j].n = 2000
           /\ last.context[j].hi = 2000
           /\ ~PieceStartsWith(last.context, j + 1, TruncatedMarker)
    /\ \E j \in ContentPieces(last.context) :
           /\ last.context[j].n = 500
           /\ last.context[j].hi = 500

\* the block for a file that could not be read
ErrorBlock(rel) == FileLabel(rel) \o ErrorText \o "\n\n"

\* C10: a selected file whose read fails has the error block as its block;
\* when the entry is reached within the budget the block stands in the text
\* at the place of the entry, after the blocks of the entries before it, its
\* length is part of the running total, and the entry after it is processed:
\* its block or the limit notice follows at once.
C10_ReadFailureBlock ==
    last.called =>
        LET sel == last.selection
            k == FitCount(sel)
        IN  \A i \in DOMAIN sel :
                readFile(sel[i]).null =>
                    /\ _buildFileContext(sel[i]) = <<Lit(ErrorBlock(sel[i]))>>
                    /\ i <= k =>
                        /\ OffsetIn(last.context, ErrorBlock(sel[i]))
                               = Len(ContextHeader) + BlocksLen(sel, i - 1)
                        /\ BlocksLen(sel, i)
                               = BlocksLen(sel, i - 1) + Len(ErrorBlock(sel[i]))
                        /\ i < k =>
                               OffsetIn(last.context, FileLabel(sel[i + 1]))
                                   = Len(ContextHeader) + BlocksLen(sel, i)
                        /\ (i = k /\ k < Len(sel)) =>
                               OffsetIn(last.context, LimitNotice)
                                   = Len(ContextHeader) + BlocksLen(sel, i)
                        /\ TextLen(last.context)
                               = Len(ContextHeader) + BlocksLen(sel, k)
                                 + (IF k < Len(sel) THEN Len(LimitNotice) ELSE 0)
                                 + Len(ContextFooter)

\* C10 witness: a file between two others cannot be read; its error block
\* is in the text and the block of the next entry comes after it.
C10_Witness ==
    /\ last.called
    /\ \E i \in DOMAIN last.selection :
           /\ 1 < i
           /\ i < FitCount(last.selection)
           /\ readFile(last.selection[i]).null
           /\ Contains(last.context, ErrorBlock(last.selection[i]))
           /\ OffsetIn(last.context, FileLabel(last.selection[i + 1]))
                  > OffsetIn(last.context, ErrorBlock(last.selection[i]))

\* a value is a text: a sequence of pieces, no two literal ones adjacent
IsText(t) ==
    /\ DOMAIN t = 1..Len(t)
    /\ \A j \in DOMAIN t :
           /\ DOMAIN t[j] = {"s", "f", "n", "hi"}
           /\ IsLit(t[j]) => Len(t[j].s) > 0
           /\ (j > 1 /\ IsLit(t[j])) => ~IsLit(t[j - 1])

\* C11: no call of buildContext ends with an exception: every call returns
\* a string, also when no selected file can be read.
C11_NeverThrows ==
    /\ ~last.threw
    /\ last.userMessage # "" => (last.called /\ IsText(last.context))

\* C11 witness: a call returned although reading every selected file failed,
\* for one of them with an exception of readFileSync.
C11_Witness ==
    /\ last.called
    /\ last.selection # <<>>
    /\ \A i \in DOMAIN last.selection : readFile(last.selection[i]).null
    /\ \E i \in DOMAIN last.selection :
           readFileSync(pathJoin(projectPath, last.selection[i])).threw
    /\ StartsWith(last.context, ContextHeader)

\* C12: the history holds at most 20 entries, and they are the latest
\* min(n, 20) of the n entries handed to addToHistory, in the order they were
\* handed in and unchanged.
C12_LatestTwenty ==
    LET n == Len(appended)
        kept == Len(conversationHistory)
    IN  /\ kept <= 20
        /\ kept = IF n < 20 THEN n ELSE 20
        /\ \A i \in 1..kept : conversationHistory[i] = appended[n - kept + i]

\* C12 witness: more than 20 entries were appended, the oldest ones are gone
\* and the entries kept are not all the same.
C12_Witness ==
    /\ Len(appended) > 21
    /\ Len(conversationHistory) = 20
    /\ appended[1] # conversationHistory[1]
    /\ appended[2] # conversationHistory[2]
    /\ conversationHistory[1] # conversationHistory[20]

\* the line is a message: no command and not empty once trimmed
IsMessage(input) ==
    /\ ~isExitCommand(trim(input))
    /\ ~handleSpecialCommands(trim(input))
    /\ trim(input) # ""

\* pieces of the packed context that no message of the model holds
ContextMarks ==
    {"=== PROJECT CONTEXT ===", "FILE: ", Separator, "=== END PROJECT CONTEXT ==="}

UserTurns(h) == SelectSeq(h, LAMBDA t : t.role = "user")

\* C13: every user turn ever put into the history is a line of the user,
\* trimmed, the latest one is the line processed last, and no entry of the
\* history holds a piece of the packed context.
C13_HistoryUnprefixed ==
    /\ \A i \in DOMAIN appended :
           /\ appended[i].role = "user" =>
                  \E input \in Inputs : appended[i].content = trim(input)
           /\ \A mark \in ContextMarks : ~includes(appended[i].content, mark)
    /\ Range(conversationHistory) \subseteq Range(appended)
    /\ Len(UserTurns(appended)) = Len(requests)
    /\ IsMessage(line) =>
           /\ UserTurns(appended) # <<>>
           /\ UserTurns(appended)[Len(UserTurns(appended))].content = trim(line)

\* C13 witness: a turn with no context, then a turn of a line with blanks
\* around it for which a context was built, are in the history as typed.
C13_Witness ==
    /\ last.called
    /\ last.context # <<>>
    /\ line # trim(line)
    /\ Len(conversationHistory) >= 3
    /\ conversationHistory[1] = User("hello there")
    /\ conversationHistory[Len(conversationHistory)] = User(trim(line))
    /\ \E i \in DOMAIN conversationHistory : conversationHistory[i].role = "assistant"

\* the last message of the request handed over last
LastSent == LET r == requests[Len(requests)] IN r.messages[Len(r.messages)]

FirstIndex(q, x) == CHOOSE i \in DOMAIN q : q[i] = x /\ \A j \in 1..(i - 1) : q[j] # x

NoRepeats(q) == \A i, j \in DOMAIN q : i # j => q[i] # q[j]

\* C15: what _findMentionedFiles returns for the message of a call has no
\* path twice, holds the paths pushed by the two passes in the order of their
\* first push, and so every path of the literal pass before every path that
\* only the keyword pass found.
C15_CandidatesOrdered ==
    last.called =>
        LET lit == literalPass(last.userMessage)
            pushed == lit \o keywordPass(last.userMessage)
            r == _findMentionedFiles(last.userMessage)
        IN  /\ NoRepeats(r)
            /\ Range(r) = Range(pushed)
            /\ \A i, j \in DOMAIN r :
                   i < j => FirstIndex(pushed, r[i]) < FirstIndex(pushed, r[j])
            /\ \A i, j \in DOMAIN r :
                   (r[i] \in Range(lit) /\ r[j] \notin Range(lit)) => i < j
            /\ \A i \in 1..Len(r) : last.selection[i] = r[i]

\* C15 witness: a path is pushed by several patterns and by both passes, and
\* a path that only the keyword pass finds comes last.
C15_Witness ==
    /\ last.called
    /\ LET lit == literalPass(last.userMessage)
           key == keywordPass(last.userMessage)
           r == _findMentionedFiles(last.userMessage)
       IN  /\ ~NoRepeats(lit)
           /\ Range(lit) \cap Range(key) # {}
           /\ Len(r) > 2
           /\ r[Len(r)] \notin Range(lit)
           /\ r[1] \in Range(key)

\* C16: a keyword of the table that the message of a call holds contributes
\* at most 3 files, all its patterns taken together.
C16_ThreePerKeyword ==
    last.called =>
        \A e \in DOMAIN keywordToFileType :
            includes(toLowerCase(last.userMessage), keywordToFileType[e].keyword)
                => Cardinality(Range(keywordPushes(e))) <= 3

\* how many times needle occurs in str
CountStr(str, needle) ==
    Cardinality({i \in 1..(Len(str) - Len(needle) + 1) :
                     SubSeq(str, i, i + Len(needle) - 1) = needle})

\* how many times needle occurs among the literal characters of a text
RECURSIVE CountIn(_, _)
CountIn(text, needle) ==
    IF text = <<>> THEN 0
    ELSE (IF IsLit(text[1]) THEN CountStr(text[1].s, needle) ELSE 0)
             + CountIn(Tail(text), needle)

\* C17: the selection of a call is the candidates of the message followed by
\* those of the window of the history that the message did not yield, each
\* path once, and the returned text holds at most one FILE block for a path.
C17_SelectionIsOrderedUnion ==
    last.called =>
        LET cur == _findMentionedFiles(last.userMessage)
            rec == WindowFiles(last.conversationHistory)
            sel == last.selection
        IN  /\ NoRepeats(sel)
            /\ Range(sel) = Range(cur) \cup Range(rec)
            /\ SubSeq(sel, 1, Len(cur)) = cur
            /\ \A i, j \in DOMAIN sel :
                   i < j => FirstIndex(cur \o rec, sel[i]) < FirstIndex(cur \o rec, sel[j])
            /\ \A i \in DOMAIN projectFiles :
                   CountIn(last.context, FileLabel(projectFiles[i].relativePath))
                       <= 1

\* C17 witness: the message and the history name the same file, and the
\* file has one block, between the blocks of other files.
C17_Witness ==
    /\ last.called
    /\ \E i \in DOMAIN last.selection :
           /\ 1 < i
           /\ i < Len(last.selection)
           /\ last.selection[i] \in Range(_findMentionedFiles(last.userMessage))
           /\ last.selection[i] \in Range(WindowFiles(last.conversationHistory))
           /\ CountIn(last.context, FileLabel(last.selection[i])) = 1

C19_ContextListsBlocks ==
    last.called =>
        /\ \A i \in DOMAIN projectFiles :
               projectFiles[i].relativePath \in Range(currentContext)
                   <=> HasFileBlock(last.context, projectFiles[i].relativePath)
        /\ Len(currentContext) = CountIn(last.context, "FILE: ")

\* the indices of the files whose name or path holds the query, case apart
Hits(query) ==
    {i \in DOMAIN projectFiles :
        \/ includes(toLowerCase(projectFiles[i].name), toLowerCase(query))
        \/ includes(toLowerCase(projectFiles[i].relativePath), toLowerCase(query))}

\* the k-th smallest element of a set of numbers
Kth(S, k) == CHOOSE i \in S : Cardinality({j \in S : j < i}) = k - 1

\* C20: findFiles returns the files of the index whose name or path holds
\* the query as a substring, case apart: all of them, each once, in the
\* order of the index.
C20_FindFilesExact ==
    found.asked =>
        /\ Len(found.files) = Cardinality(Hits(found.query))
        /\ \A k \in DOMAIN found.files :
               found.files[k] = projectFiles[Kth(Hits(found.query), k)]

\* C20 witness: a query with a capital letter found a file by its name, which
\* has capital letters too, and another file after it by its path alone.
C20_Witness ==
    /\ found.asked
    /\ found.query = "Main"
    /\ Len(found.files) = 2
    /\ found.files[1].name = "Main.js"
    /\ found.files[2].relativePath = "main/Util.js"
    /\ Len(projectFiles) > 2

\* C21: readFile never throws: for every argument and every state of the
\* file system (the file missing, unreadable, readable) the call returns
\* either null or the text the file at the resolved path holds.
C21_ReadFileReturns ==
    got.asked =>
        /\ ~got.content.threw
        /\ \/ got.content.null
           \/ /\ got.content.f = (IF isAbsolute(got.filePath) THEN got.filePath
                                   ELSE pathJoin(projectPath, got.filePath))
              /\ diskAt(got.content.f).st = "file"
              /\ got.content.n = diskAt(got.content.f).n

C21_Witness ==
    /\ got.asked
    /\ got.filePath = "parser.ts"
    /\ cwd = projectPath
    /\ diskAt(pathJoin(projectPath, "parser.ts")).st = "eio"
    /\ got.content = Null

\* C22: for every indexed file that exists and is readable, readFile of its
\* relative path and readFile of its absolute path both return its content,
\* whatever the working directory of the process is.
C22_BothPathsRead ==
    got.asked =>
        \A i \in DOMAIN projectFiles :
            (/\ got.filePath \in {projectFiles[i].relativePath, projectFiles[i].path}
             /\ diskAt(projectFiles[i].path).st = "file")
            => (/\ ~got.content.null
                /\ got.content.f = projectFiles[i].path
                /\ got.content.n = diskAt(projectFiles[i].path).n)

\* the paths of the index
IndexedPaths == {projectFiles[i].path : i \in DOMAIN projectFiles}

\* how many directory levels a path lies below from
LevelsBelow(from, p) ==
    Cardinality({i \in (Len(from) + 2)..Len(p) : Char(p, i) = "/"})

\* the last component of a path
basename(p) == SubSeq(p, LastIndexOf(p, "/", 1, Len(p)) + 1, Len(p))

\* the names a directory lists, as paths
Children(dirPath) ==
    {pathJoin(dirPath, item) : item \in Range(readdirSync(dirPath).items)}

\* the directories k levels below the root that can be reached: each a name
\* that its parent lists and that is a directory
RECURSIVE DirsAt(_)
DirsAt(k) ==
    IF k = 0 THEN {projectPath}
    ELSE {c \in UNION {Children(d) : d \in DirsAt(k - 1)} : statSync(c).isDirectory}

\* the regular files k levels below the root that can be reached
FilesAt(k) == {c \in UNION {Children(d) : d \in DirsAt(k)} : statSync(c).isFile}

\* a directory on the path below the root has an ignored name
UnderIgnored(p) ==
    \E dir \in ignoredDirs :
        includes(SubSeq(p, Len(projectPath) + 1, Len(p)), "/" \o dir \o "/")

\* the conditions of the index on a file
Eligible(p) ==
    /\ extname(basename(p)) \in supportedExtensions
    /\ basename(p) \notin ignoredFiles
    /\ statSync(p).size <= 1048576
    /\ ~UnderIgnored(p)

\* C23: after scanProject, a regular file that can be reached within the
\* depth bound is in the index if and only if its extension is in the
\* allow-list, its name is not an ignored file name, its size is at most
\* 1048576 bytes and no directory on its path has an ignored name.
C23_IndexedIffEligible ==
    scanned.done =>
        \A k \in 0..MaxDepth : \A p \in FilesAt(k) :
            p \in IndexedPaths <=> Eligible(p)

\* how many directory levels a directory lies below the root
DirDepth(dirPath) ==
    IF dirPath = projectPath THEN 0 ELSE LevelsBelow(projectPath, dirPath) + 1

\* C24: the scan is bounded to depth 5: no indexed file lies more than 5
\* directory levels below the root, every eligible file at 5 or fewer
\* levels is indexed, and no directory deeper than 5 levels is listed.
C24_DepthBound ==
    scanned.done =>
        /\ \A i \in DOMAIN projectFiles :
               LevelsBelow(projectPath, projectFiles[i].path) <= 5
        /\ \A k \in 0..5 : \A p \in FilesAt(k) :
               (Eligible(p) /\ p \notin IndexedPaths) => FALSE
        /\ \A i \in DOMAIN scanned.listed : DirDepth(scanned.listed[i]) <= 5

\* the directories the scan tried to list and could not
Unlistable ==
    {scanned.listed[i] : i \in {j \in DOMAIN scanned.listed :
                                    readdirSync(scanned.listed[j]).threw}}

\* p lies under the directory dirPath
Under(dirPath, p) == SubSeq(p, 1, Len(dirPath) + 1) = dirPath \o "/"

\* after is before with the directory dirPath no longer listable
LockedFrom(before, after, dirPath) ==
    /\ DOMAIN before = DOMAIN after
    /\ dirPath \in DOMAIN before
    /\ before[dirPath].st = "dir"
    /\ after[dirPath].st = "locked"
    /\ \A p \in DOMAIN before \ {dirPath} : before[p] = after[p]

\* C25: when the scan comes to a directory that cannot be listed it still
\* returns, and its index is the index of the same tree with that directory
\* listable less the files under the directory: every other file, the
\* later siblings of the directory included, is still indexed, in the same
\* order.
C25_UnlistableSkipped ==
    [][ \A dirPath \in DOMAIN disk :
            (/\ scanned'.done /\ ~scanned.done
             /\ scanned.tree # <<>>
             /\ LockedFrom(scanned.tree, disk, dirPath)
             /\ \E i \in DOMAIN scanned'.listed : scanned'.listed[i] = dirPath)
            => projectFiles' =
                   SelectSeq(projectFiles, LAMBDA f : ~Under(dirPath, f.path)) ]_vars

C25_Witness ==
    /\ scanned.done
    /\ Unlistable = {pathJoin(ProjectDir, "docs")}
    /\ scanned.tree = disk
    /\ pathJoin(ProjectDir, "main.js") \in IndexedPaths
    /\ pathJoin(ProjectDir, "docs/guide.md") \notin IndexedPaths

\* C26: buildContext changes neither the history it is handed nor the
\* index: the history after a turn is the history before it with the user's
\* turn appended, no step of a session changes or re-scans the index, and of
\* the state of the builder only currentContext changes, in turns only.
C26_InputsReadOnly ==
    [][ /\ projectFiles' = projectFiles
        /\ scanned' = scanned
        /\ requests' # requests =>
               /\ last'.called
               /\ last'.conversationHistory = conversationHistory
               /\ conversationHistory' =
                      addToHistory(conversationHistory, "user", last'.userMessage)
               /\ currentContext' = last'.selection
        /\ requests' = requests =>
               /\ currentContext' = currentContext
               /\ last' = last ]_vars

\* C26 witness: a turn on a history of two entries or more left them in
\* place, the index as scanned, and the selection in currentContext.
C26_Witness ==
    /\ last.called
    /\ Len(last.conversationHistory) >= 2
    /\ conversationHistory = Append(last.conversationHistory, User(last.userMessage))
    /\ projectFiles = ScanResult
    /\ currentContext = last.selection
    /\ currentContext # <<>>

\* C27: the error placeholder stands only for entries whose read failed: an
\* emitted entry whose file exists and is read, its content empty or not,
\* has an ordinary block (label, separator, content, separator) and no
\* placeholder.
C27_PlaceholderOnlyOnFailure ==
    last.called =>
        \A i \in 1..FitCount(last.selection) :
            LET rel == last.selection[i]
            IN  ~readFile(rel).null =>
                    /\ ~Contains(last.context, ErrorBlock(rel))
                    /\ Contains(last.context, FileLabel(rel) \o Separator \o "\n")

\* the history is user, assistant, user, assistant, ...
Alternates(h) ==
    \A i \in DOMAIN h : h[i].role = (IF i % 2 = 1 THEN "user" ELSE "assistant")

\* the messages of the user up to the turn of the latest call, in order
MessagesSoFar ==
    LET turns == UserTurns(last.conversationHistory)
    IN  [k \in 1..(Len(turns) + 1) |->
            IF k <= Len(turns) THEN turns[k].content ELSE last.userMessage]

\* C28: in a session where every turn of the user is followed by its
\* answer, a file matched by message k and by no later message is in the
\* selection of turns k, k+1 and k+2 and in no selection from turn k+3 on.
C28_TwoTurnsOfContinuity ==
    (last.called /\ Alternates(last.conversationHistory)
        /\ 2 * Len(UserTurns(last.conversationHistory)) = Len(last.conversationHistory)) =>
        LET msgs == MessagesSoFar
            turn == Len(msgs)
        IN  \A k \in 1..turn : \A rel \in Range(_findMentionedFiles(msgs[k])) :
                (\A j \in (k + 1)..turn : rel \notin Range(_findMentionedFiles(msgs[j])))
                => (rel \in Range(last.selection) <=> turn <= k + 2)

\* C28 witness: parser.ts, named in the first message only, is selected in
\* no fourth turn.
C28_Witness ==
    /\ last.called
    /\ Len(last.conversationHistory) = 6
    /\ Alternates(last.conversationHistory)
    /\ MessagesSoFar[1] = "check parser.ts"
    /\ \A j \in 2..4 : "parser.ts" \notin Range(_findMentionedFiles(MessagesSoFar[j]))
    /\ "parser.ts" \notin Range(last.selection)

\* C29: whatever the order of lines, answers and failures of the transport,
\* the history is user, assistant, user, assistant, ...: every assistant
\* entry directly follows a user entry, and only the last entry may be a
\* user entry with no answer after it.
C29_StrictAlternation ==
    /\ Alternates(conversationHistory)
    /\ \A i \in DOMAIN conversationHistory :
           (conversationHistory[i].role = "user" /\ i < Len(conversationHistory))
           => conversationHistory[i + 1].role = "assistant"

\* the words of the commands
ExitWords == {"quit", "exit", "bye", "q"}
FilesWords == {"files", "ls", "list files", "show files"}

\* the line is a command or empty once trimmed
IsCommandLine(input) ==
    \/ toLowerCase(trim(input)) \in ExitWords \cup FilesWords
    \/ trim(input) = ""

\* C30: a line that is an exit command, a files command or empty once
\* trimmed is appended to no history, builds no context and hands nothing
\* to the transport; an exit command stops the session, the other lines
\* leave it running; and a stopped session takes no further step.
C30_CommandsNotProcessed ==
    [][ /\ running
        /\ (line' # line /\ IsCommandLine(line')) =>
               /\ UNCHANGED <<conversationHistory, appended, requests, pending,
                              last, currentContext>>
               /\ running' = (toLowerCase(trim(line')) \notin ExitWords) ]_vars

\* C30 witness: the session stopped on QUIT, which is no entry of the
\* history of the messages answered before it.
C30_Witness ==
    /\ ~running
    /\ line = "QUIT"
    /\ pending = {}
    /\ Len(conversationHistory) >= 2
    /\ \A i \in DOMAIN appended : ~IsCommandLine(appended[i].content)

\* the call of executeWithRetry has ended
Ended == retry.pc = "done"

\* C31: on a handler built with the default arguments, executeWithRetry
\* invokes asyncFn at least once, and when an invocation succeeds the call
\* returns the result of that invocation with no invocation and no sleep
\* after it.
C31_InvokesAndReturns ==
    (Ended /\ ~retry.assigned /\ retry.given = DefaultMaxRetries) =>
        /\ retry.invoked >= 1
        /\ \A i \in DOMAIN retry.settled :
               retry.settled[i].ok =>
                   /\ i = retry.invoked
                   /\ retry.result = [kind |-> "returned", value |-> retry.settled[i]]
                   /\ retry.sleeps = i - 1

\* every attempt made failed with an error that is retried
AllRetryable ==
    \A i \in 1..Len(retry.asyncFn) :
        ~retry.asyncFn[i].ok /\ retry.asyncFn[i].status \in {429, 503, 0}

\* C32: executeWithRetry invokes asyncFn at most maxRetries times, the 3 of
\* the default or the value given to the constructor; and when every
\* attempt fails with a retryable error the call ends after exactly
\* maxRetries invocations with one sleep between two of them and throws the
\* error of the last one.
C32_AtMostMaxRetries ==
    ~retry.assigned =>
        /\ retry.pc # "none" => retry.invoked <= retry.given
        /\ (Ended /\ Len(retry.asyncFn) >= retry.given /\ AllRetryable) =>
               /\ retry.invoked = retry.given
               /\ retry.sleeps = retry.given - 1
               /\ retry.result = [kind |-> "thrown",
                                  value |-> Rejected(retry.asyncFn[retry.given].status,
                                                     retry.given)]

\* C33: an attempt that fails with status 401, 400 or 402 ends the call:
\* that error is thrown, asyncFn is not invoked again and no sleep follows;
\* an attempt that fails with another status, or with no response, is
\* followed by a sleep and another invocation while attempts remain, and
\* its error is thrown when none remains.
C33_NoRetryStatuses ==
    \A i \in DOMAIN retry.settled :
        LET error == retry.settled[i]
            thrown == [kind |-> "thrown", value |-> error]
        IN  ~error.ok =>
                IF error.status \in {401, 400, 402}
                THEN /\ Ended
                     /\ retry.invoked = i
                     /\ retry.sleeps = i - 1
                     /\ retry.result = thrown
                ELSE IF i < retry.maxRetries.n
                THEN /\ retry.sleeps >= i
                     /\ \/ retry.pc = "sleeping" /\ retry.invoked = i
                        \/ retry.invoked > i
                ELSE Ended /\ retry.invoked = i /\ retry.result = thrown

\* C33 witness: the first attempt failed with 429 and was retried after a
\* sleep, the second failed with 401 and its error was thrown at once, with
\* an attempt left.
C33_Witness ==
    /\ Ended
    /\ retry.maxRetries = Num(3)
    /\ retry.settled = <<Rejected(429, 1), Rejected(401, 2)>>
    /\ retry.invoked = 2
    /\ retry.sleeps = 1
    /\ retry.result = [kind |-> "thrown", value |-> Rejected(401, 2)]

====
